---- MODULE Spec2Model ----
(***************************************************************************)
(* The wrapped MAC of tink-go (mac/mac_factory.go, kept in                 *)
(* src/mac/mac_init_test.go lines 39-213) over a primitive set.            *)
(*                                                                         *)
(* Byte strings are sequences of numbers 0..255.  The caller's data can    *)
(* be as long as an int allows, so a data value is a record                *)
(*   [hi |-> 0 or 1, bytes |-> the trailing bytes]                         *)
(* where hi = 1 stands for a leading block of 2^(intSize-1) - BlockSlack   *)
(* filler bytes.  Lengths of data are therefore kept as                    *)
(*   [hi |-> h, lo |-> l]   meaning   h * 2^(intSize-1) + l                *)
(* which is exact for intSize = 32 and for intSize = 64 alike.             *)
(*                                                                         *)
(* More specifications follow the wrapped MAC, each of which leaves the    *)
(* state of the other components alone:                                    *)
(*   SpecKM   the HMAC key manager (src/unnamed/part_000) and the ECDSA    *)
(*            verifier's Primitive,                                        *)
(*   SpecReg  the registry of key managers,                                *)
(*   SpecXC   XChaCha20-Poly1305 (src/aead/subtle/xchacha20poly1305.go),   *)
(*   SpecNW   newWrappedMAC and createLoggers,                             *)
(*   SpecKT   the hybrid key templates (src/unnamed/part_001),             *)
(*   SpecCC   two goroutines calling one wrapped MAC.                      *)
(***************************************************************************)
EXTENDS Integers, Sequences, FiniteSets, TLC

\* ------------------------------------------------------------------ bounds
MaxEntries == 3

MaxDataLen == 2

\* ------------------------------------------------------- program constants
NonRawPrefixSize == 5

PrefixTypes == {"TINK", "LEGACY", "CRUNCHY", "RAW"}

\* the key ids the keys of a keyset are drawn from (uint32)
KeyIdSeq == <<1, 16909060>>

KeyIds == {KeyIdSeq[j] : j \in DOMAIN KeyIdSeq}

\* maxInt = 1<<(intSize-1) - 1, as a length
maxInt == [hi |-> 1, lo |-> -1]

\* ------------------------------------------------------------ byte strings
BlockSlack == MaxDataLen + 1

Zeros(n) == [j \in 1..n |-> 0]

\* the data values callers pass: 0..MaxDataLen bytes, and the same after a
\* long block, which gives the lengths maxInt-MaxDataLen .. maxInt
DataInputs == {[hi |-> h, bytes |-> Zeros(n)] : h \in 0..1, n \in 0..MaxDataLen}

\* len(data)
DataLen(d) == [hi |-> d.hi, lo |-> Len(d.bytes) - d.hi * BlockSlack]

\* a >= b on lengths
LenGE(a, b) == a.hi > b.hi \/ (a.hi = b.hi /\ a.lo >= b.lo)

\* data = make([]byte, 0, len(d)+1); append(data, d...); append(data, 0)
AppendZero(d) == [d EXCEPT !.bytes = Append(@, 0)]

Take(s, n) == SubSeq(s, 1, n)

Drop(s, n) == SubSeq(s, n + 1, Len(s))

\* ---------------------------------------------------- output prefix (4.5)
BigEndianUint32(n) ==
    << (n \div 16777216) % 256, (n \div 65536) % 256, (n \div 256) % 256, n % 256 >>

OutputPrefix(prefixType, keyId) ==
    CASE prefixType = "TINK" -> <<1>> \o BigEndianUint32(keyId)
      [] prefixType \in {"LEGACY", "CRUNCHY"} -> <<0>> \o BigEndianUint32(keyId)
      [] OTHER -> << >>

\* ------------------------------------------- the underlying tink.MAC (6)
\* A key's MAC is a deterministic function of the data.  The tag is 7 bytes:
\* 5 leading bytes fixed per key and 2 bytes that tell keys and data apart.
\* The leading bytes of the keys 1..Len(KeyIdSeq) are those of a LEGACY or
\* CRUNCHY prefix, so that a raw tag can fall into a prefix bucket.
Enc(bytes) ==
    LET RECURSIVE E(_)
        E(s) == IF s = << >> THEN 0 ELSE 2 * E(Take(s, Len(s) - 1)) + 1 + s[Len(s)]
    IN E(bytes) % 128

TagHead(key) ==
    IF key \in DOMAIN KeyIdSeq THEN OutputPrefix("CRUNCHY", KeyIdSeq[key])
    ELSE <<key, key, key, key, key>>

PrimitiveComputeMAC(key, d) == TagHead(key) \o <<2 * key + d.hi, Enc(d.bytes)>>

PrimitiveVerifyMAC(key, mac, d) == mac = PrimitiveComputeMAC(key, d)

\* a tag with its last byte's top bit flipped: never a tag of any key
FlipLast(mac) == [mac EXCEPT ![Len(mac)] = (@ + 128) % 256]

\* ------------------------------------------------------ primitive set (4.3)
VARIABLES
    entries,    \* the primitive set's entries, in insertion order
    primary,    \* index of the primary entry
    last,       \* the last MAC a ComputeMAC call returned, and for which data
    pc,         \* position of the call in progress
    callMac,    \* VerifyMAC's argument mac
    callData,   \* the caller's data buffer
    data,       \* the local variable data of the call
    cands,      \* the local variable entries of VerifyMAC (indices into entries)
    i,          \* the loop index of VerifyMAC
    calls,      \* the underlying primitives invoked by the call, in order
    logs,       \* the monitoring methods invoked by the call, in order
    lookups,    \* the primitive-set lookups made by the call, in order
    result,     \* what the call returned
    op          \* the operation called

\* state of the other components of the library; the wrapped MAC never touches it
VARIABLES
    km,         \* the HMAC key manager's last call and its outcome
    reg,        \* the registry: the key manager kept for each type URL
    xc,         \* the XChaCha20-Poly1305 primitive and its last call
    nw,         \* the last construction of a wrapped MAC and its loggers
    kt,         \* the last key template obtained
    cc          \* the locals of a second call on the wrapped MAC while it is not running

others == <<km, reg, xc, nw, kt, cc>>

\* no call made yet
Idle == [op |-> "none"]

OthersIdle == km = Idle /\ reg = Idle /\ xc = Idle /\ nw = Idle /\ kt = Idle /\ cc = Idle

\* the wrapped MAC's own state
macVars == <<entries, primary, last, pc, callMac, callData, data, cands, i,
             calls, logs, lookups, result, op>>

vars == <<macVars, others>>

EntryKinds == [keyId : KeyIds, prefixType : PrefixTypes]

\* every enabled key of the keyset becomes an entry; entry j holds key j
PrimitiveSets ==
    { [j \in DOMAIN f |-> [keyId |-> f[j].keyId, prefixType |-> f[j].prefixType, key |-> j]] :
        f \in UNION {[1..m -> EntryKinds] : m \in 1..MaxEntries} }

Prefix(e) == OutputPrefix(e.prefixType, e.keyId)

\* the indices in S, in insertion order
SelectIdx(S) ==
    LET RECURSIVE Sel(_)
        Sel(j) == IF j > Len(entries) THEN << >>
                  ELSE (IF j \in S THEN <<j>> ELSE << >>) \o Sel(j + 1)
    IN Sel(1)

EntriesForPrefix(prefix) ==
    SelectIdx({j \in DOMAIN entries :
                 entries[j].prefixType # "RAW" /\ Prefix(entries[j]) = prefix})

RawEntries == SelectIdx({j \in DOMAIN entries : entries[j].prefixType = "RAW"})

\* ------------------------------------------------------------ wrapped MAC
NoData == [hi |-> 0, bytes |-> << >>]

NoLast == [ok |-> FALSE, mac |-> << >>, data |-> NoData, primary |-> 0]

Pending == [err |-> "pending", mac |-> << >>]

Failed(e) == [err |-> e, mac |-> << >>]

LogFailure == [op |-> "LogFailure", keyId |-> 0, len |-> DataLen(NoData)]

Log(keyId, n) == [op |-> "Log", keyId |-> keyId, len |-> n]

Invocation(idx, o, mac, d, ok) ==
    [entry |-> idx, op |-> o, mac |-> mac, data |-> d, ok |-> ok]

\* exactly one enabled key has the primary's key id
ValidPrimary(k) ==
    /\ k \in DOMAIN entries
    /\ \A j \in DOMAIN entries : entries[j].keyId = entries[k].keyId => j = k

Init ==
    /\ entries \in PrimitiveSets
    /\ primary \in DOMAIN entries
    /\ ValidPrimary(primary)
    /\ last = NoLast
    /\ pc = "idle"
    /\ op = "none"
    /\ callMac = << >>
    /\ callData = NoData
    /\ data = NoData
    /\ cands = << >>
    /\ i = 0
    /\ calls = << >>
    /\ logs = << >>
    /\ lookups = << >>
    /\ result = Pending
    /\ OthersIdle

\* no call is in progress
Callable == pc = "idle"

\* if len(d) >= maxInt
DataTooLong(d) == LenGE(DataLen(d), maxInt)

\* the data handed to an entry's primitive
EntryData(e, d) == IF e.prefixType = "LEGACY" THEN AppendZero(d) ELSE d

\* mutant: the prefix is left out of the output
ComputeOutput_NoPrefix(prefix, mac) == mac

\* if len(primary.Prefix) == 0 { return mac }; output = prefix || mac
ComputeOutput(prefix, mac) == IF Len(prefix) = 0 THEN mac ELSE prefix \o mac

\* ComputeMAC(data); primFails: the primary's primitive returns an error
ComputeMAC(d, primFails) ==
    LET p == entries[primary]
        tooLong == p.prefixType = "LEGACY" /\ DataTooLong(d)
        dd == EntryData(p, d)
        tag == PrimitiveComputeMAC(p.key, dd)
        out == ComputeOutput(Prefix(p), tag)
    IN /\ Callable
       /\ pc' = "done"
       /\ op' = "ComputeMAC"
       /\ callMac' = << >>
       /\ callData' = d
       /\ cands' = << >>
       /\ i' = 0
       /\ lookups' = << >>
       /\ IF tooLong
          THEN /\ data' = d
               /\ calls' = << >>
               /\ logs' = <<LogFailure>>
               /\ result' = Failed("DataTooLong")
               /\ last' = NoLast
          ELSE /\ data' = dd
               /\ calls' = <<Invocation(primary, "ComputeMAC", << >>, dd, ~primFails)>>
               /\ IF primFails
                  THEN /\ logs' = <<LogFailure>>
                       /\ result' = Failed("PrimitiveError")
                       /\ last' = NoLast
                  ELSE /\ logs' = <<Log(p.keyId, DataLen(dd))>>
                       /\ result' = [err |-> "nil", mac |-> out]
                       /\ last' = [ok |-> TRUE, mac |-> out, data |-> d, primary |-> primary]
       /\ UNCHANGED <<entries, primary>>

\* the MAC a wrapped MAC with entry e as its primary returns for d
MACOf(e, d) ==
    ComputeOutput(Prefix(e), PrimitiveComputeMAC(e.key, EntryData(e, d)))

\* the macs callers pass to VerifyMAC with data d, besides the MAC last
\* computed: the MAC of d under each key of the set, the primary's MAC cut to
\* its first five bytes and with a flipped tag bit, the empty mac, and a mac
\* whose first byte is no prefix's and no tag's of the set
MacInputs(d) ==
    LET ok(e) == ~(e.prefixType = "LEGACY" /\ DataTooLong(d))
        own == IF ok(entries[primary]) THEN {MACOf(entries[primary], d)} ELSE {}
    IN {<< >>, <<2, 0, 0, 0, 0, 0, 0>>}
       \cup {MACOf(entries[j], d) : j \in {k \in DOMAIN entries : ok(entries[k])}}
       \cup {Take(m, NonRawPrefixSize) : m \in own}
       \cup {FlipLast(m) : m \in own}

\* mutant: a mac of exactly five bytes passes the length check
ShortMAC_Strict(mac) == Len(mac) < NonRawPrefixSize

\* if len(mac) <= prefixSize
ShortMAC(mac) == Len(mac) <= NonRawPrefixSize

\* VerifyMAC(mac, data) up to the lookup of the prefix bucket
VerifyMAC_Begin(mac, d, keep) ==
    /\ Callable
    /\ last' = IF keep THEN last ELSE NoLast
    /\ op' = "VerifyMAC"
    /\ callMac' = mac
    /\ callData' = d
    /\ data' = d
    /\ calls' = << >>
    /\ IF ShortMAC(mac)
       THEN /\ logs' = <<LogFailure>>
            /\ result' = Failed("InvalidMac")
            /\ pc' = "done"
            /\ cands' = << >>
            /\ i' = 0
            /\ lookups' = << >>
       ELSE /\ logs' = << >>
            /\ result' = Pending
            /\ pc' = "prefix"
            /\ cands' = EntriesForPrefix(Take(mac, NonRawPrefixSize))
            /\ i' = 1
            /\ lookups' = <<"EntriesForPrefix">>
    /\ UNCHANGED <<entries, primary>>

\* mutant: the prefix bucket is skipped
PrefixLoopDone_Skip == TRUE

\* the loop over the prefix bucket has ended: not i < len(entries)
PrefixLoopDone == i > Len(cands)

\* mutant: the raw loop stops after its first entry
RawLoopDone_First == i > 1 \/ i > Len(cands)

\* the loop over the raw entries has ended: not i < len(entries)
RawLoopDone == i > Len(cands)

\* mutant: the 0x00 suffix is appended to the caller's buffer in place
VerifyMAC_TryPrefixEntry_InPlace ==
    /\ pc = "prefix"
    /\ ~PrefixLoopDone
    /\ LET e == entries[cands[i]]
           macNoPrefix == Drop(callMac, NonRawPrefixSize)
           dd == EntryData(e, data)
           ok == PrimitiveVerifyMAC(e.key, macNoPrefix, dd)
       IN IF e.prefixType = "LEGACY" /\ DataTooLong(data)
          THEN /\ logs' = Append(logs, LogFailure)
               /\ result' = Failed("DataTooLong")
               /\ pc' = "done"
               /\ UNCHANGED <<data, calls, i, callData>>
          ELSE /\ data' = dd
               /\ callData' = dd
               /\ calls' = Append(calls, Invocation(cands[i], "VerifyMAC", macNoPrefix, dd, ok))
               /\ IF ok
                  THEN /\ logs' = Append(logs, Log(e.keyId, DataLen(dd)))
                       /\ result' = [err |-> "nil", mac |-> << >>]
                       /\ pc' = "done"
                       /\ UNCHANGED i
                  ELSE /\ i' = i + 1
                       /\ UNCHANGED <<logs, result, pc>>
    /\ UNCHANGED <<entries, primary, last, callMac, cands, lookups, op>>

\* one iteration of the loop over the prefix bucket
VerifyMAC_TryPrefixEntry ==
    /\ pc = "prefix"
    /\ ~PrefixLoopDone
    /\ LET e == entries[cands[i]]
           macNoPrefix == Drop(callMac, NonRawPrefixSize)
           dd == EntryData(e, data)
           ok == PrimitiveVerifyMAC(e.key, macNoPrefix, dd)
       IN IF e.prefixType = "LEGACY" /\ DataTooLong(data)
          THEN /\ logs' = Append(logs, LogFailure)
               /\ result' = Failed("DataTooLong")
               /\ pc' = "done"
               /\ UNCHANGED <<data, calls, i>>
          ELSE /\ data' = dd
               /\ calls' = Append(calls, Invocation(cands[i], "VerifyMAC", macNoPrefix, dd, ok))
               /\ IF ok
                  THEN /\ logs' = Append(logs, Log(e.keyId, DataLen(dd)))
                       /\ result' = [err |-> "nil", mac |-> << >>]
                       /\ pc' = "done"
                       /\ UNCHANGED i
                  ELSE /\ i' = i + 1
                       /\ UNCHANGED <<logs, result, pc>>
    /\ UNCHANGED <<entries, primary, last, callMac, callData, cands, lookups, op>>

\* the prefix bucket is exhausted: entries, err = m.ps.RawEntries()
VerifyMAC_LookupRaw ==
    /\ pc = "prefix"
    /\ PrefixLoopDone
    /\ pc' = "raw"
    /\ cands' = RawEntries
    /\ i' = 1
    /\ lookups' = Append(lookups, "RawEntries")
    /\ UNCHANGED <<entries, primary, last, callMac, callData, data, calls, logs, result, op>>

\* one iteration of the loop over the raw entries
VerifyMAC_TryRawEntry ==
    /\ pc = "raw"
    /\ ~RawLoopDone
    /\ LET e == entries[cands[i]]
           ok == PrimitiveVerifyMAC(e.key, callMac, data)
       IN /\ calls' = Append(calls, Invocation(cands[i], "VerifyMAC", callMac, data, ok))
          /\ IF ok
             THEN /\ logs' = Append(logs, Log(e.keyId, DataLen(data)))
                  /\ result' = [err |-> "nil", mac |-> << >>]
                  /\ pc' = "done"
                  /\ UNCHANGED i
             ELSE /\ i' = i + 1
                  /\ UNCHANGED <<logs, result, pc>>
    /\ UNCHANGED <<entries, primary, last, callMac, callData, data, cands, lookups, op>>

\* mutant: the final failure is not logged
VerifyMAC_NothingWorked_NoLog ==
    /\ pc = "raw"
    /\ i > Len(cands)
    /\ result' = Failed("InvalidMac")
    /\ pc' = "done"
    /\ UNCHANGED <<entries, primary, last, callMac, callData, data, cands, i, calls, logs, lookups, op>>

\* mutant: the call returns OK when every candidate has rejected
VerifyMAC_NothingWorked_Accepts ==
    /\ pc = "raw"
    /\ i > Len(cands)
    /\ logs' = Append(logs, Log(entries[primary].keyId, DataLen(data)))
    /\ result' = [err |-> "nil", mac |-> << >>]
    /\ pc' = "done"
    /\ UNCHANGED <<entries, primary, last, callMac, callData, data, cands, i, calls, lookups, op>>

\* nothing worked
VerifyMAC_NothingWorked ==
    /\ pc = "raw"
    /\ RawLoopDone
    /\ logs' = Append(logs, LogFailure)
    /\ result' = Failed("InvalidMac")
    /\ pc' = "done"
    /\ UNCHANGED <<entries, primary, last, callMac, callData, data, cands, i, calls, lookups, op>>

\* the call returns to its caller
Return ==
    /\ pc = "done"
    /\ pc' = "idle"
    /\ op' = "none"
    /\ callMac' = << >>
    /\ callData' = NoData
    /\ data' = NoData
    /\ cands' = << >>
    /\ i' = 0
    /\ calls' = << >>
    /\ logs' = << >>
    /\ lookups' = << >>
    /\ result' = Pending
    /\ UNCHANGED <<entries, primary, last>>

\* key rotation: a wrapped MAC over the same enabled keys with another primary
Rotate(k) ==
    /\ Callable
    /\ k # primary
    /\ ValidPrimary(k)
    /\ primary' = k
    /\ pc' = "idle"
    /\ op' = "none"
    /\ callMac' = << >>
    /\ callData' = NoData
    /\ data' = NoData
    /\ cands' = << >>
    /\ i' = 0
    /\ calls' = << >>
    /\ logs' = << >>
    /\ lookups' = << >>
    /\ result' = Pending
    /\ UNCHANGED <<entries, last>>

Next ==
    /\ \/ \E d \in DataInputs, primFails \in BOOLEAN : ComputeMAC(d, primFails)
       \/ last.ok /\ \E d \in DataInputs : VerifyMAC_Begin(last.mac, d, TRUE)
       \/ \E d \in DataInputs : \E mac \in MacInputs(d) : VerifyMAC_Begin(mac, d, FALSE)
       \/ VerifyMAC_TryPrefixEntry
       \/ VerifyMAC_LookupRaw
       \/ VerifyMAC_TryRawEntry
       \/ VerifyMAC_NothingWorked
       \/ Return
       \/ \E k \in DOMAIN entries : Rotate(k)
    /\ UNCHANGED others

Spec == Init /\ [][Next]_vars

\* ----------------------------------------------------------------- claims
VerifyDone == op = "VerifyMAC" /\ pc = "done"

ComputeDone == op = "ComputeMAC" /\ pc = "done"

\* the call verifies the MAC last computed against the data it was computed for
VerifiesLast == VerifyDone /\ last.ok /\ callMac = last.mac /\ callData = last.data

UniqueKeyIds == \A j, k \in DOMAIN entries : entries[j].keyId = entries[k].keyId => j = k

IsRaw(idx) == entries[idx].prefixType = "RAW"

IsLegacy(idx) == entries[idx].prefixType = "LEGACY"

\* the candidates of the call in the order of the protocol: the prefix bucket
\* in insertion order, then the raw entries in list order
Candidates == EntriesForPrefix(Take(callMac, NonRawPrefixSize)) \o RawEntries

\* C1: with unique key ids and |data| < maxInt, VerifyMAC accepts the MAC
\* that ComputeMAC of the same wrapped MAC returned for the same data.
C1_RoundTrip ==
    (VerifiesLast /\ last.primary = primary /\ UniqueKeyIds /\ ~DataTooLong(callData))
        => result.err = "nil"

\* C2: a MAC computed under primary p is accepted, for the same data, by the
\* wrapped MAC over the same keys whose primary is another entry k (stated
\* for |data| < maxInt, where no length check can interfere).
C2_Rotation ==
    (VerifiesLast /\ last.primary # primary /\ ~DataTooLong(callData)) => result.err = "nil"

\* C3: VerifyMAC invokes every raw entry with the full mac and with the
\* caller's unmodified data.
C3_RawArguments ==
    op = "VerifyMAC" =>
        \A j \in DOMAIN calls :
            IsRaw(calls[j].entry) => calls[j].mac = callMac /\ calls[j].data = callData

\* C4: VerifyMAC invokes every prefix-matched entry with mac[5:] and with the
\* caller's data, followed by exactly one 0x00 if and only if the entry is LEGACY.
C4_PrefixArguments ==
    op = "VerifyMAC" =>
        \A j \in DOMAIN calls :
            ~IsRaw(calls[j].entry) =>
                /\ calls[j].mac = Drop(callMac, NonRawPrefixSize)
                /\ calls[j].data = [callData EXCEPT !.bytes =
                        IF IsLegacy(calls[j].entry) THEN callData.bytes \o <<0>> ELSE callData.bytes]

\* C5: ComputeMAC invokes the primary's primitive, once, on data || 0x00 if
\* the primary is LEGACY and on data otherwise, and returns the primary's
\* prefix followed by the tag (the tag alone for RAW); a LEGACY result
\* differs from the TINK result for the same key and key id in its first
\* byte and in the data authenticated.
C5_ComputeOutput ==
    (ComputeDone /\ result.err = "nil") =>
        LET p == entries[primary]
            authenticated == [callData EXCEPT !.bytes =
                IF p.prefixType = "LEGACY" THEN callData.bytes \o <<0>> ELSE callData.bytes]
            tag == PrimitiveComputeMAC(p.key, authenticated)
        IN /\ Len(calls) = 1
           /\ calls[1].entry = primary
           /\ calls[1].data = authenticated
           /\ result.mac = OutputPrefix(p.prefixType, p.keyId) \o tag
           /\ p.prefixType = "RAW" => result.mac = tag
           /\ p.prefixType # "RAW" =>
                  /\ Len(result.mac) = NonRawPrefixSize + Len(tag)
                  /\ Take(result.mac, NonRawPrefixSize) = OutputPrefix(p.prefixType, p.keyId)
           /\ p.prefixType = "LEGACY" =>
                  /\ result.mac[1] = 0
                  /\ OutputPrefix("TINK", p.keyId)[1] = 1
                  /\ calls[1].data # callData
                  /\ result.mac # OutputPrefix("TINK", p.keyId) \o PrimitiveComputeMAC(p.key, callData)
           /\ p.prefixType = "TINK" => result.mac[1] = 1 /\ calls[1].data = callData

\* a ComputeMAC call with a LEGACY primary has returned a MAC
C5_Witness ==
    ComputeDone /\ result.err = "nil" /\ IsLegacy(primary) /\ Len(callData.bytes) > 0

\* C6: for |mac| <= 5 VerifyMAC returns InvalidMac, logs one failure, and
\* invokes no primitive and no primitive-set lookup.
C6_ShortMAC ==
    (op = "VerifyMAC" /\ Len(callMac) <= 5) =>
        /\ pc = "done"
        /\ result.err = "InvalidMac"
        /\ logs = <<LogFailure>>
        /\ calls = << >>
        /\ lookups = << >>

\* VerifyMAC was called with a mac of exactly 5 bytes on a set with a raw entry
C6_Witness ==
    VerifyDone /\ Len(callMac) = 5 /\ RawEntries # << >>

\* C7: the primitives VerifyMAC invokes are an initial part of the prefix
\* bucket in insertion order followed by the raw entries in list order; only
\* the last one invoked can have accepted, and then the call has returned OK.
C7_Order ==
    (op = "VerifyMAC" /\ Len(callMac) > NonRawPrefixSize) =>
        /\ Len(calls) <= Len(Candidates)
        /\ \A j \in DOMAIN calls :
              /\ calls[j].entry = Candidates[j]
              /\ j < Len(calls) => ~calls[j].ok
              /\ calls[j].ok => pc = "done" /\ result.err = "nil"
        /\ result.err = "nil" => calls # << >> /\ calls[Len(calls)].ok

\* a raw entry has accepted after a prefix-matched entry was tried and rejected
C7_Witness ==
    /\ VerifyDone
    /\ result.err = "nil"
    /\ Len(calls) = 2
    /\ ~IsRaw(calls[1].entry)
    /\ IsRaw(calls[2].entry)

C9_OneLog ==
    /\ pc = "done" =>
          /\ Len(logs) = 1
          /\ result.err = "nil" <=> logs[1].op = "Log"
          /\ result.err # "nil" <=> logs[1].op = "LogFailure"
          /\ result.err # "pending"
    /\ pc # "done" => logs = << >> /\ result.err = "pending"

\* a VerifyMAC call has failed at a LEGACY entry with data too long
C9_Witness ==
    VerifyDone /\ result.err = "DataTooLong" /\ logs = <<LogFailure>>

\* C10: ComputeMAC with a LEGACY primary and VerifyMAC at a LEGACY
\* prefix-matched entry fail with data too long, without invoking that
\* entry's primitive, exactly when |data| >= maxInt for the caller's data;
\* other entries enforce no bound.
C10_LengthCheck ==
    /\ ComputeDone =>
          (result.err = "DataTooLong" <=> (IsLegacy(primary) /\ DataTooLong(callData)))
    /\ (op = "VerifyMAC" /\ Len(callMac) > NonRawPrefixSize) =>
          /\ result.err = "DataTooLong" =>
                /\ DataTooLong(callData)
                /\ Len(calls) < Len(Candidates)
                /\ IsLegacy(Candidates[Len(calls) + 1])
          /\ \A j \in DOMAIN calls : IsLegacy(calls[j].entry) => ~DataTooLong(callData)

\* ------------------------------------------------- HMAC key manager (4.1)
MaxStream == 2

hmacKeyVersion == 0

hmacTypeURL == "type.googleapis.com/google.crypto.tink.HmacKey"

errInvalidHMACKey == "hmac_key_manager: invalid key"

errInvalidHMACKeyFormat == "hmac_key_manager: invalid key format"

\* the byte sources: stream s delivers StreamByte(s, 0), StreamByte(s, 1), ...
Streams == 1..MaxStream

StreamByte(s, p) == (s * 101 + p * 7) % 256

StreamBytes(s, from, n) == [j \in 1..n |-> StreamByte(s, from + j - 1)]

\* random.GetRandomBytes(n), the process's random source being at stream rnd
GetRandomBytes(rnd, n) == StreamBytes(rnd, 0, n)

\* a reader of pseudorandomness: a stream, the bytes it holds, the bytes read
Readers == {[stream |-> s, len |-> n, pos |-> 0] : s \in Streams, n \in {0, 15, 16, 40}}

\* io.ReadFull(r, buf) with len(buf) = n: whatever is there is consumed
ReadFull(r, n) ==
    IF r.len - r.pos >= n
    THEN [err |-> "nil", bytes |-> StreamBytes(r.stream, r.pos, n),
          r |-> [r EXCEPT !.pos = @ + n]]
    ELSE [err |-> IF r.len = r.pos THEN "EOF" ELSE "unexpected EOF",
          bytes |-> StreamBytes(r.stream, r.pos, r.len - r.pos),
          r |-> [r EXCEPT !.pos = r.len]]

\* commonpb.HashType_name
HashTypeName(h) ==
    CASE h = 0 -> "UNKNOWN_HASH"
      [] h = 1 -> "SHA1"
      [] h = 2 -> "SHA384"
      [] h = 3 -> "SHA256"
      [] h = 4 -> "SHA512"
      [] h = 5 -> "SHA224"
      [] OTHER -> ""

\* the digest size of a hash, 0 for a name that is no hash
GetHashDigestSize(hash) ==
    CASE hash = "SHA1" -> 20
      [] hash = "SHA224" -> 28
      [] hash = "SHA256" -> 32
      [] hash = "SHA384" -> 48
      [] hash = "SHA512" -> 64
      [] OTHER -> 0

minKeySizeInBytes == 16

minTagSizeInBytes == 10

\* subtle.ValidateHMACParams: "nil" or what is wrong
ValidateHMACParams(hash, keySize, tagSize) ==
    IF GetHashDigestSize(hash) = 0 THEN "invalid hash algorithm"
    ELSE IF tagSize > GetHashDigestSize(hash) THEN "tag size too big"
    ELSE IF tagSize < minTagSizeInBytes THEN "tag size too small"
    ELSE IF keySize < minKeySizeInBytes THEN "key too short"
    ELSE "nil"

\* keyset.ValidateKeyVersion(version, maxExpected)
ValidateKeyVersion(version, maxExpected) ==
    IF version > maxExpected THEN "key has version greater than the maximum" ELSE "nil"

\* HmacParams, a nil pointer or a message
NilParams == [present |-> FALSE, hash |-> 0, tagSize |-> 0]

HmacParamsOf(h, t) == [present |-> TRUE, hash |-> h, tagSize |-> t]

\* the params tried: each hash with the tag sizes around its two bounds, an
\* unknown and an unassigned hash, an empty message and a nil pointer
HmacParamsInputs ==
    {NilParams, HmacParamsOf(0, 0), HmacParamsOf(0, minTagSizeInBytes),
     HmacParamsOf(9, minTagSizeInBytes)}
    \cup {HmacParamsOf(h, t) : h \in 1..5, t \in {minTagSizeInBytes - 1, minTagSizeInBytes}}
    \cup UNION {{HmacParamsOf(h, GetHashDigestSize(HashTypeName(h)) + d) : d \in {0, 1}} : h \in 1..5}

KeySizeInputs == {minKeySizeInBytes - 1, minKeySizeInBytes, minKeySizeInBytes + 1}

VersionInputs == {hmacKeyVersion, hmacKeyVersion + 1}

HmacKeyFormats == [params : HmacParamsInputs, keySize : KeySizeInputs, version : VersionInputs]

NoKey == [nil |-> TRUE, version |-> 0, params |-> NilParams, keyValue |-> << >>]

HmacKeyOf(v, p, k) == [nil |-> FALSE, version |-> v, params |-> p, keyValue |-> k]

HmacKeys ==
    {HmacKeyOf(v, p, StreamBytes(s, 0, n)) :
        v \in VersionInputs, p \in HmacParamsInputs, s \in Streams, n \in KeySizeInputs}

\* the serialized form of a message: its fields in field-number order, each
\* with its number f and its varint v, bytes b or submessage m
WireField(f, v, b, m) == [f |-> f, v |-> v, b |-> b, m |-> m]

HasField(w, f) == \E j \in DOMAIN w : w[j].f = f

\* the last occurrence of a field wins
FieldOf(w, f) ==
    w[CHOOSE j \in DOMAIN w : w[j].f = f /\ \A k \in DOMAIN w : w[k].f = f => k <= j]

\* field number 0 is no field: the parser gives up
WellFormed(w) == \A j \in DOMAIN w : w[j].f > 0

Garbage == <<WireField(0, 0, << >>, << >>)>>

\* a scalar at its default value is not written
MarshalParams(p) ==
    (IF p.hash # 0 THEN <<[f |-> 1, v |-> p.hash]>> ELSE << >>)
    \o (IF p.tagSize # 0 THEN <<[f |-> 2, v |-> p.tagSize]>> ELSE << >>)

UnmarshalParams(m) ==
    [present |-> TRUE,
     hash |-> IF HasField(m, 1) THEN FieldOf(m, 1).v ELSE 0,
     tagSize |-> IF HasField(m, 2) THEN FieldOf(m, 2).v ELSE 0]

\* proto.Marshal of an HmacKeyFormat: params = 1, key_size = 2, version = 3
MarshalKeyFormat(fmt) ==
    (IF fmt.params.present
     THEN <<WireField(1, 0, << >>, MarshalParams(fmt.params))>> ELSE << >>)
    \o (IF fmt.keySize # 0 THEN <<WireField(2, fmt.keySize, << >>, << >>)>> ELSE << >>)
    \o (IF fmt.version # 0 THEN <<WireField(3, fmt.version, << >>, << >>)>> ELSE << >>)

\* proto.Unmarshal into an HmacKeyFormat
UnmarshalKeyFormat(w) ==
    [ok |-> WellFormed(w),
     msg |-> [params |-> IF HasField(w, 1) THEN UnmarshalParams(FieldOf(w, 1).m)
                         ELSE NilParams,
              keySize |-> IF HasField(w, 2) THEN FieldOf(w, 2).v ELSE 0,
              version |-> IF HasField(w, 3) THEN FieldOf(w, 3).v ELSE 0]]

\* proto.Marshal of an HmacKey: version = 1, params = 2, key_value = 3
MarshalKey(key) ==
    (IF key.version # 0 THEN <<WireField(1, key.version, << >>, << >>)>> ELSE << >>)
    \o (IF key.params.present
        THEN <<WireField(2, 0, << >>, MarshalParams(key.params))>> ELSE << >>)
    \o (IF Len(key.keyValue) # 0
        THEN <<WireField(3, 0, key.keyValue, << >>)>> ELSE << >>)

\* proto.Unmarshal into an HmacKey
UnmarshalKey(w) ==
    [ok |-> WellFormed(w),
     msg |-> HmacKeyOf(IF HasField(w, 1) THEN FieldOf(w, 1).v ELSE 0,
                       IF HasField(w, 2) THEN UnmarshalParams(FieldOf(w, 2).m)
                       ELSE NilParams,
                       IF HasField(w, 3) THEN FieldOf(w, 3).b ELSE << >>)]

\* the serialized formats and keys handed to the key manager
SerializedKeyFormats == {<< >>, Garbage} \cup {MarshalKeyFormat(f) : f \in HmacKeyFormats}

SerializedKeys == {<< >>, Garbage} \cup {MarshalKey(k) : k \in HmacKeys}

\* what a call returns: an error ("nil" for none) and a key
KeyResult(err, key) == [err |-> err, key |-> key]

\* format.Params.Hash, format.Params.TagSize of a possibly nil Params
HashOf(params) == HashTypeName(params.hash)

\* mutant: the key size of the format is not looked at
validateKeyFormat_AnyKeySize(format) ==
    ValidateHMACParams(HashOf(format.params), minKeySizeInBytes, format.params.tagSize)

\* validateKeyFormat(format)
validateKeyFormat(format) ==
    ValidateHMACParams(HashOf(format.params), format.keySize, format.params.tagSize)

\* mutant: the version of the key is not looked at
validateKey_NoVersion(key) ==
    ValidateHMACParams(HashOf(key.params), Len(key.keyValue), key.params.tagSize)

\* validateKey(key)
validateKey(key) ==
    IF ValidateKeyVersion(key.version, hmacKeyVersion) # "nil"
    THEN "hmac_key_manager: invalid version"
    ELSE ValidateHMACParams(HashOf(key.params), Len(key.keyValue), key.params.tagSize)

\* mutant: the parameters of the format are not validated
NewKey_NoValidation(sf, rnd) ==
    IF Len(sf) = 0 \/ ~UnmarshalKeyFormat(sf).ok THEN KeyResult(errInvalidHMACKeyFormat, NoKey)
    ELSE KeyResult("nil", HmacKeyOf(hmacKeyVersion, UnmarshalKeyFormat(sf).msg.params,
                                    GetRandomBytes(rnd, UnmarshalKeyFormat(sf).msg.keySize)))

\* NewKey(serializedKeyFormat), the random source being at stream rnd
NewKey(sf, rnd) ==
    IF Len(sf) = 0 THEN KeyResult(errInvalidHMACKeyFormat, NoKey)
    ELSE IF ~UnmarshalKeyFormat(sf).ok THEN KeyResult(errInvalidHMACKeyFormat, NoKey)
    ELSE LET keyFormat == UnmarshalKeyFormat(sf).msg IN
         IF validateKeyFormat(keyFormat) # "nil"
         THEN KeyResult("hmac_key_manager: invalid key format", NoKey)
         ELSE KeyResult("nil", HmacKeyOf(hmacKeyVersion, keyFormat.params,
                                         GetRandomBytes(rnd, keyFormat.keySize)))

NoKeyData == [nil |-> TRUE, typeUrl |-> "", value |-> << >>, keyMaterialType |-> ""]

\* NewKeyData(serializedKeyFormat)
NewKeyData(sf, rnd) ==
    IF NewKey(sf, rnd).err # "nil"
    THEN [err |-> NewKey(sf, rnd).err, keyData |-> NoKeyData]
    ELSE [err |-> "nil",
          keyData |-> [nil |-> FALSE, typeUrl |-> hmacTypeURL,
                       value |-> MarshalKey(NewKey(sf, rnd).key),
                       keyMaterialType |-> "SYMMETRIC"]]

DeriveResult(err, key, r) == [err |-> err, key |-> key, r |-> r]

\* mutant: the key bytes come from the random source, not from the reader
DeriveKey_Random(sf, pseudorandomness, rnd) ==
    IF Len(sf) = 0 \/ ~UnmarshalKeyFormat(sf).ok
    THEN DeriveResult(errInvalidHMACKeyFormat, NoKey, pseudorandomness)
    ELSE LET keyFormat == UnmarshalKeyFormat(sf).msg IN
         IF validateKeyFormat(keyFormat) # "nil"
         THEN DeriveResult("hmac_key_manager: invalid key format", NoKey, pseudorandomness)
         ELSE IF ValidateKeyVersion(keyFormat.version, hmacKeyVersion) # "nil"
         THEN DeriveResult("hmac_key_manager: invalid key version", NoKey, pseudorandomness)
         ELSE DeriveResult("nil", HmacKeyOf(hmacKeyVersion, keyFormat.params,
                                            GetRandomBytes(rnd, keyFormat.keySize)),
                           pseudorandomness)

\* mutant: a short read is not an error, the buffer is returned as it is
DeriveKey_ShortRead(sf, pseudorandomness, rnd) ==
    IF Len(sf) = 0 \/ ~UnmarshalKeyFormat(sf).ok
    THEN DeriveResult(errInvalidHMACKeyFormat, NoKey, pseudorandomness)
    ELSE LET keyFormat == UnmarshalKeyFormat(sf).msg
             read == ReadFull(pseudorandomness, keyFormat.keySize)
         IN
         IF validateKeyFormat(keyFormat) # "nil"
         THEN DeriveResult("hmac_key_manager: invalid key format", NoKey, pseudorandomness)
         ELSE IF ValidateKeyVersion(keyFormat.version, hmacKeyVersion) # "nil"
         THEN DeriveResult("hmac_key_manager: invalid key version", NoKey, pseudorandomness)
         ELSE DeriveResult("nil",
                           HmacKeyOf(hmacKeyVersion, keyFormat.params,
                                     read.bytes \o Zeros(keyFormat.keySize - Len(read.bytes))),
                           read.r)

\* mutant: the key bytes are read before the format is validated
DeriveKey_ReadFirst(sf, pseudorandomness, rnd) ==
    IF Len(sf) = 0 \/ ~UnmarshalKeyFormat(sf).ok
    THEN DeriveResult(errInvalidHMACKeyFormat, NoKey, pseudorandomness)
    ELSE LET keyFormat == UnmarshalKeyFormat(sf).msg
             read == ReadFull(pseudorandomness, keyFormat.keySize)
         IN
         IF validateKeyFormat(keyFormat) # "nil"
         THEN DeriveResult("hmac_key_manager: invalid key format", NoKey, read.r)
         ELSE IF ValidateKeyVersion(keyFormat.version, hmacKeyVersion) # "nil"
         THEN DeriveResult("hmac_key_manager: invalid key version", NoKey, read.r)
         ELSE IF read.err # "nil"
         THEN DeriveResult("hmac_key_manager: not enough pseudorandomness given", NoKey, read.r)
         ELSE DeriveResult("nil", HmacKeyOf(hmacKeyVersion, keyFormat.params, read.bytes),
                           read.r)

\* DeriveKey(serializedKeyFormat, pseudorandomness); the random source, at
\* stream rnd, is within reach of the code and left alone
DeriveKey(sf, pseudorandomness, rnd) ==
    IF Len(sf) = 0 THEN DeriveResult(errInvalidHMACKeyFormat, NoKey, pseudorandomness)
    ELSE IF ~UnmarshalKeyFormat(sf).ok
    THEN DeriveResult(errInvalidHMACKeyFormat, NoKey, pseudorandomness)
    ELSE LET keyFormat == UnmarshalKeyFormat(sf).msg
             read == ReadFull(pseudorandomness, keyFormat.keySize)
         IN
         IF validateKeyFormat(keyFormat) # "nil"
         THEN DeriveResult("hmac_key_manager: invalid key format", NoKey, pseudorandomness)
         ELSE IF ValidateKeyVersion(keyFormat.version, hmacKeyVersion) # "nil"
         THEN DeriveResult("hmac_key_manager: invalid key version", NoKey, pseudorandomness)
         ELSE IF read.err # "nil"
         THEN DeriveResult("hmac_key_manager: not enough pseudorandomness given", NoKey, read.r)
         ELSE DeriveResult("nil", HmacKeyOf(hmacKeyVersion, keyFormat.params, read.bytes),
                           read.r)

NoPrimitive == [nil |-> TRUE, hash |-> "", key |-> << >>, tagSize |-> 0]

\* subtle.NewHMAC(hashAlg, key, tagSize): the primitive checks its own parameters
NewHMAC(hashAlg, key, tagSize) ==
    IF ValidateHMACParams(hashAlg, Len(key), tagSize) # "nil"
    THEN [err |-> "hmac: " \o ValidateHMACParams(hashAlg, Len(key), tagSize), prim |-> NoPrimitive]
    ELSE [err |-> "nil",
          prim |-> [nil |-> FALSE, hash |-> hashAlg, key |-> key, tagSize |-> tagSize]]

\* Primitive(serializedKey)
Primitive(sk) ==
    IF Len(sk) = 0 THEN [err |-> errInvalidHMACKey, prim |-> NoPrimitive]
    ELSE IF ~UnmarshalKey(sk).ok THEN [err |-> errInvalidHMACKey, prim |-> NoPrimitive]
    ELSE LET key == UnmarshalKey(sk).msg IN
         IF validateKey(key) # "nil" THEN [err |-> validateKey(key), prim |-> NoPrimitive]
         ELSE NewHMAC(HashOf(key.params), key.keyValue, key.params.tagSize)

\* ------------------------------------------- ECDSA verifier key manager (4.1)
\* EcdsaParams: hash (HashType), curve (2, 3, 4 = NIST P-256, P-384, P-521),
\* encoding (1 = IEEE_P1363, 2 = DER); 0 is the unknown value of each
EcdsaParamsInputs ==
    {[present |-> FALSE, hash |-> 0, curve |-> 0, encoding |-> 0]}
    \cup [present : {TRUE}, hash : {0, 3, 4}, curve : {0, 2, 4}, encoding : {0, 2}]

\* the hash must fit the curve, and the encoding must be known
ValidateECDSAParams(p) ==
    /\ p.encoding \in {1, 2}
    /\ \/ p.curve = 2 /\ HashTypeName(p.hash) = "SHA256"
       \/ p.curve = 3 /\ HashTypeName(p.hash) \in {"SHA384", "SHA512"}
       \/ p.curve = 4 /\ HashTypeName(p.hash) = "SHA512"

\* EcdsaPublicKey; of the point only whether it lies on the curve is kept
EcdsaPublicKeys == [version : VersionInputs, params : EcdsaParamsInputs, onCurve : BOOLEAN]

\* proto.Marshal of an EcdsaPublicKey: version = 1, params = 2, the point = 3
MarshalEcdsaPublicKey(k) ==
    (IF k.version # 0 THEN <<WireField(1, k.version, << >>, << >>)>> ELSE << >>)
    \o (IF k.params.present
        THEN <<WireField(2, 0, << >>,
                         SelectSeq(<<[f |-> 1, v |-> k.params.hash],
                                     [f |-> 2, v |-> k.params.curve],
                                     [f |-> 3, v |-> k.params.encoding]>>,
                                   LAMBDA x : x.v # 0))>>
        ELSE << >>)
    \o <<WireField(3, 0, IF k.onCurve THEN <<4, 1>> ELSE <<4, 0>>, << >>)>>

UnmarshalEcdsaPublicKey(w) ==
    [ok |-> WellFormed(w),
     msg |-> [version |-> IF HasField(w, 1) THEN FieldOf(w, 1).v ELSE 0,
              params |-> IF HasField(w, 2)
                         THEN [present |-> TRUE,
                               hash |-> IF HasField(FieldOf(w, 2).m, 1)
                                        THEN FieldOf(FieldOf(w, 2).m, 1).v ELSE 0,
                               curve |-> IF HasField(FieldOf(w, 2).m, 2)
                                         THEN FieldOf(FieldOf(w, 2).m, 2).v ELSE 0,
                               encoding |-> IF HasField(FieldOf(w, 2).m, 3)
                                            THEN FieldOf(FieldOf(w, 2).m, 3).v ELSE 0]
                         ELSE [present |-> FALSE, hash |-> 0, curve |-> 0, encoding |-> 0],
              onCurve |-> HasField(w, 3) /\ FieldOf(w, 3).b = <<4, 1>>]]

\* Primitive(serializedKey) of the verifier: empty input fails, the payload is
\* parsed, version and parameters are validated, the verifier is constructed
EcdsaVerifierPrimitive(sk) ==
    IF Len(sk) = 0 \/ ~UnmarshalEcdsaPublicKey(sk).ok
    THEN [err |-> "ecdsa_verifier_key_manager: invalid key", prim |-> NoPrimitive]
    ELSE LET key == UnmarshalEcdsaPublicKey(sk).msg IN
         IF ValidateKeyVersion(key.version, 0) # "nil" \/ ~ValidateECDSAParams(key.params)
         THEN [err |-> "ecdsa_verifier_key_manager: invalid key", prim |-> NoPrimitive]
         ELSE IF ~key.onCurve
         THEN [err |-> "ecdsa_verifier_key_manager: invalid public key", prim |-> NoPrimitive]
         ELSE [err |-> "nil",
               prim |-> [nil |-> FALSE, hash |-> HashTypeName(key.params.hash),
                         key |-> FieldOf(sk, 3).b, tagSize |-> 0]]

SerializedEcdsaKeys == {<< >>, Garbage} \cup {MarshalEcdsaPublicKey(k) : k \in EcdsaPublicKeys}

\* ---- the key manager's entry points as steps; km keeps the call and its outcome
\* until the caller returns
NoReader == [stream |-> 0, len |-> 0, pos |-> 0]

KMCall(o, input, rnd, r, res) ==
    [op |-> o, input |-> input, rnd |-> rnd, rd |-> r, res |-> res, again |-> Idle,
     prev |-> Idle]

KM_NewKey(sf, rnd) ==
    /\ km = Idle
    /\ km' = KMCall("NewKey", sf, rnd, NoReader, NewKey(sf, rnd))
    /\ UNCHANGED <<macVars, reg, xc, nw, kt, cc>>

KM_NewKeyData(sf, rnd) ==
    /\ km = Idle
    /\ km' = KMCall("NewKeyData", sf, rnd, NoReader, NewKeyData(sf, rnd))
    /\ UNCHANGED <<macVars, reg, xc, nw, kt, cc>>

KM_DeriveKey(sf, r, rnd) ==
    /\ km = Idle
    /\ km' = KMCall("DeriveKey", sf, rnd, r, DeriveKey(sf, r, rnd))
    /\ UNCHANGED <<macVars, reg, xc, nw, kt, cc>>

\* a second call with the same format, on another reader of the same stream
KM_DeriveKeyAgain(rnd) ==
    /\ km.op = "DeriveKey"
    /\ km.again = Idle
    /\ km' = [km EXCEPT !.again = DeriveKey(km.input, km.rd, rnd)]
    /\ UNCHANGED <<macVars, reg, xc, nw, kt, cc>>

KM_Primitive(sk) ==
    /\ km = Idle
    /\ km' = KMCall("Primitive", sk, 0, NoReader, Primitive(sk))
    /\ UNCHANGED <<macVars, reg, xc, nw, kt, cc>>

\* the next DeriveKey call on the reader a successful DeriveKey call has read from
KM_DeriveKeyNext(sf) ==
    /\ km.op = "DeriveKey"
    /\ km.again = Idle
    /\ km.res.err = "nil"
    /\ km' = [KMCall("DeriveKeyNext", sf, km.rnd, km.res.r, DeriveKey(sf, km.res.r, km.rnd))
                 EXCEPT !.prev = [input |-> km.input, rd |-> km.rd, res |-> km.res]]
    /\ UNCHANGED <<macVars, reg, xc, nw, kt, cc>>

\* Primitive on the serialization of the key a call has just returned
KM_PrimitiveOfKey ==
    LET sk == IF km.op = "NewKeyData" THEN km.res.keyData.value ELSE MarshalKey(km.res.key) IN
    /\ km.op \in {"NewKey", "NewKeyData", "DeriveKey", "DeriveKeyNext"}
    /\ km.again = Idle
    /\ km.res.err = "nil"
    /\ km' = [KMCall("PrimitiveOfKey", sk, km.rnd, NoReader, Primitive(sk))
                 EXCEPT !.prev = [op |-> km.op, input |-> km.input, res |-> km.res]]
    /\ UNCHANGED <<macVars, reg, xc, nw, kt, cc>>

\* Primitive(serializedKey) of the ECDSA verifier key manager
KM_EcdsaVerifierPrimitive(sk) ==
    /\ km = Idle
    /\ km' = KMCall("EcdsaVerifierPrimitive", sk, 0, NoReader, EcdsaVerifierPrimitive(sk))
    /\ UNCHANGED <<macVars, reg, xc, nw, kt, cc>>

\* the caller is done with the outcome of its call
KM_Return ==
    /\ km # Idle
    /\ km' = Idle
    /\ UNCHANGED <<macVars, reg, xc, nw, kt, cc>>

\* the wrapped MAC at rest while another component is exercised
MacAtRest ==
    /\ entries = <<[keyId |-> KeyIdSeq[1], prefixType |-> "TINK", key |-> 1]>>
    /\ primary = 1
    /\ last = NoLast
    /\ pc = "idle"
    /\ op = "none"
    /\ callMac = << >>
    /\ callData = NoData
    /\ data = NoData
    /\ cands = << >>
    /\ i = 0
    /\ calls = << >>
    /\ logs = << >>
    /\ lookups = << >>
    /\ result = Pending

InitKM == MacAtRest /\ OthersIdle

NextKM ==
    \/ \E sf \in SerializedKeyFormats, rnd \in Streams : KM_NewKey(sf, rnd)
    \/ \E sf \in SerializedKeyFormats, rnd \in Streams : KM_NewKeyData(sf, rnd)
    \/ \E sf \in SerializedKeyFormats, r \in Readers, rnd \in Streams : KM_DeriveKey(sf, r, rnd)
    \/ \E rnd \in Streams : KM_DeriveKeyAgain(rnd)
    \/ \E sf \in SerializedKeyFormats : KM_DeriveKeyNext(sf)
    \/ KM_PrimitiveOfKey
    \/ \E sk \in SerializedKeys : KM_Primitive(sk)
    \/ \E sk \in SerializedEcdsaKeys : KM_EcdsaVerifierPrimitive(sk)
    \/ KM_Return

SpecKM == InitKM /\ [][NextKM]_vars

\* ------------------------------------------------- claims on the key manager
\* the formats of a given well-formed serialized input
FormatsOf(sf) == {f \in HmacKeyFormats : MarshalKeyFormat(f) = sf}

KeysOf(sk) == {k \in HmacKeys : MarshalKey(k) = sk}

FormatCall == km.op \in {"NewKey", "NewKeyData", "DeriveKey"}

\* the call in km produced nothing
NothingProduced ==
    CASE km.op = "NewKeyData" -> km.res.keyData = NoKeyData
      [] km.op \in {"Primitive", "EcdsaVerifierPrimitive"} -> km.res.prim = NoPrimitive
      [] OTHER -> km.res.key = NoKey

\* C11: every entry point of the HMAC key manager rejects a version above 0:
\* NewKey, NewKeyData and DeriveKey fail on a format of version > 0, Primitive
\* fails on a key of version > 0, and nothing is produced.
C11_VersionRejected ==
    /\ FormatCall /\ (\E f \in FormatsOf(km.input) : f.version > 0)
         => km.res.err # "nil" /\ NothingProduced
    /\ km.op = "Primitive" /\ (\E k \in KeysOf(km.input) : k.version > 0)
         => km.res.err # "nil" /\ NothingProduced

\* the formats whose parameters ValidateHMACParams turns down
ParamInvalid(f) ==
    ValidateHMACParams(HashTypeName(f.params.hash), f.keySize, f.params.tagSize) # "nil"

\* C12: a key NewKey returns has version 0, the params of the format and
\* keySize bytes of the random source; an empty, unparseable or
\* parameter-invalid format gets the invalid-format error and no key.
C12_NewKey ==
    km.op = "NewKey" =>
        /\ km.res.err = "nil" =>
             \E f \in FormatsOf(km.input) :
                 /\ ~km.res.key.nil
                 /\ km.res.key.version = 0
                 /\ km.res.key.params = f.params
                 /\ Len(km.res.key.keyValue) = f.keySize
                 /\ km.res.key.keyValue = StreamBytes(km.rnd, 0, f.keySize)
        /\ (km.input \in {<< >>, Garbage} \/ \E f \in FormatsOf(km.input) : ParamInvalid(f))
             => km.res.err = errInvalidHMACKeyFormat /\ km.res.key = NoKey

C12_Witness ==
    /\ km.op = "NewKey"
    /\ km.res.err = "nil"
    /\ km.res.key.params = HmacParamsOf(2, 48)
    /\ Len(km.res.key.keyValue) = minKeySizeInBytes + 1

\* the formats DeriveKey has nothing against
ValidFormat(f) == ~ParamInvalid(f) /\ f.version = 0

\* C13: DeriveKey on a valid format fails with the not-enough-pseudorandomness
\* error and returns no key when the source holds fewer than keySize bytes,
\* none included; a key it returns holds keySize bytes, all read from the source.
C13_ShortEntropy ==
    km.op = "DeriveKey" =>
        \A f \in FormatsOf(km.input) :
            ValidFormat(f) =>
                /\ km.rd.len < f.keySize =>
                     /\ km.res.err = "hmac_key_manager: not enough pseudorandomness given"
                     /\ km.res.key = NoKey
                /\ km.res.err = "nil" =>
                     /\ km.rd.len >= f.keySize
                     /\ Len(km.res.key.keyValue) = f.keySize
                     /\ km.res.key.keyValue = StreamBytes(km.rd.stream, 0, f.keySize)

C13_Witness ==
    /\ km.op = "DeriveKey"
    /\ \E f \in FormatsOf(km.input) : ValidFormat(f) /\ f.keySize = minKeySizeInBytes
    /\ km.rd.len = minKeySizeInBytes - 1
    /\ km.res.key = NoKey

\* C14: two DeriveKey calls with the same format, each on a reader of the same
\* stream, return the same key; its keyValue is the first keySize bytes of the
\* stream, its version and params follow from the format alone.
C14_Deterministic ==
    km.op = "DeriveKey" /\ km.again # Idle =>
        /\ km.again.err = km.res.err
        /\ km.again.key = km.res.key
        /\ km.res.err = "nil" =>
             \E f \in FormatsOf(km.input) :
                 /\ km.res.key.keyValue = StreamBytes(km.rd.stream, 0, f.keySize)
                 /\ km.res.key.version = 0
                 /\ km.res.key.params = f.params

C14_Witness ==
    /\ km.op = "DeriveKey"
    /\ km.again # Idle
    /\ km.again.err = "nil"
    /\ km.rnd # km.rd.stream
    /\ Len(km.again.key.keyValue) = minKeySizeInBytes + 1

\* the keys the spec calls invalid
KeyInvalid(k) ==
    \/ k.version > 0
    \/ GetHashDigestSize(HashTypeName(k.params.hash)) = 0
    \/ Len(k.keyValue) < minKeySizeInBytes
    \/ k.params.tagSize < minTagSizeInBytes
    \/ k.params.tagSize > GetHashDigestSize(HashTypeName(k.params.hash))

EcdsaKeysOf(sk) == {k \in EcdsaPublicKeys : MarshalEcdsaPublicKey(k) = sk}

\* the verifier keys the spec calls invalid
EcdsaKeyInvalid(k) ==
    \/ k.version > 0
    \/ ~k.params.present
    \/ k.params.hash \notin {3, 4}
    \/ k.params.curve \notin {2, 4}
    \/ k.params.curve = 2 /\ k.params.hash # 3
    \/ k.params.curve = 4 /\ k.params.hash # 4
    \/ k.params.encoding = 0
    \/ ~k.onCurve

\* C15: Primitive returns an error and no primitive for an empty input, an
\* unparseable payload and a key that is invalid: for HMAC a version above 0,
\* an unknown hash, key bytes below the minimum, a tag size below the floor or
\* above the digest size; for the ECDSA verifier a hash/curve combination that
\* is invalid or unknown, missing params, a point off the curve.
C15_PrimitiveRejects ==
    /\ km.op = "Primitive" =>
         ((km.input \in {<< >>, Garbage} \/ \E k \in KeysOf(km.input) : KeyInvalid(k))
             => km.res.err # "nil" /\ km.res.prim = NoPrimitive)
    /\ km.op = "EcdsaVerifierPrimitive" =>
         ((km.input \in {<< >>, Garbage} \/ \E k \in EcdsaKeysOf(km.input) : EcdsaKeyInvalid(k))
             => km.res.err # "nil" /\ km.res.prim = NoPrimitive)

C15_Witness ==
    /\ km.op = "Primitive"
    /\ \E k \in KeysOf(km.input) :
          /\ k.version = 0
          /\ k.params = HmacParamsOf(3, 33)
          /\ Len(k.keyValue) = minKeySizeInBytes
    /\ km.res.prim = NoPrimitive

\* --------------------------------------------------------- registry (4.2)
MaxManagers == 2

aesCMACTypeURL == "type.googleapis.com/google.crypto.tink.AesCmacKey"

TypeURLs ==
    {hmacTypeURL, aesCMACTypeURL,
     "type.googleapis.com/google.crypto.tink.Ed25519PrivateKey",
     "type.googleapis.com/google.crypto.tink.EcdsaPrivateKey",
     "type.googleapis.com/google.crypto.tink.InvalidTypeURL"}

\* key manager instances: instance id of the managers of a type URL
Managers == [id : 1..MaxManagers, typeURL : TypeURLs]

NoManager == [id |-> 0, typeURL |-> ""]

\* mutant: the manager reports the name of the key type without the URL prefix
TypeURL_Bare(keyManager) ==
    IF keyManager.typeURL = hmacTypeURL THEN "google.crypto.tink.HmacKey"
    ELSE keyManager.typeURL

\* TypeURL() of a key manager
TypeURL(keyManager) == keyManager.typeURL

\* mutant: the last manager registered for a type URL wins
Register_Overwrite(keyManagers, keyManager) ==
    [err |-> "nil", keyManagers |-> (TypeURL(keyManager) :> keyManager) @@ keyManagers]

\* RegisterKeyManager(m) on the map typeUrl -> key manager
Register(keyManagers, keyManager) ==
    IF /\ TypeURL(keyManager) \in DOMAIN keyManagers
       /\ keyManagers[TypeURL(keyManager)] # keyManager
    THEN [err |-> "already registered", keyManagers |-> keyManagers]
    ELSE [err |-> "nil", keyManagers |-> (TypeURL(keyManager) :> keyManager) @@ keyManagers]

\* the registry once the mac package is initialized: its init registers the
\* HMAC and the AES-CMAC key manager
MacPackageInit ==
    Register(Register(<< >>, [id |-> 1, typeURL |-> hmacTypeURL]).keyManagers,
             [id |-> 1, typeURL |-> aesCMACTypeURL]).keyManagers

\* first keeps, for each type URL, the first manager registered without error
RegisterKeyManager(m) ==
    /\ reg' = [keyManagers |-> Register(reg.keyManagers, m).keyManagers,
               first |-> IF Register(reg.keyManagers, m).err = "nil"
                            /\ m.typeURL \notin DOMAIN reg.first
                         THEN (m.typeURL :> m) @@ reg.first ELSE reg.first,
               op |-> "RegisterKeyManager", m |-> m, url |-> m.typeURL,
               err |-> Register(reg.keyManagers, m).err, found |-> NoManager,
               before |-> reg.keyManagers]
    /\ UNCHANGED <<macVars, km, xc, nw, kt, cc>>

\* GetKeyManager(typeURL)
GetKeyManager(typeURL) ==
    /\ reg' = [reg EXCEPT
                 !.op = "GetKeyManager", !.m = NoManager, !.url = typeURL,
                 !.err = IF typeURL \in DOMAIN reg.keyManagers THEN "nil" ELSE "NotFound",
                 !.found = IF typeURL \in DOMAIN reg.keyManagers
                           THEN reg.keyManagers[typeURL] ELSE NoManager,
                 !.before = reg.keyManagers]
    /\ UNCHANGED <<macVars, km, xc, nw, kt, cc>>

InitReg ==
    /\ MacAtRest /\ km = Idle /\ xc = Idle /\ nw = Idle /\ cc = Idle /\ kt = Idle
    /\ reg = [keyManagers |-> MacPackageInit, first |-> MacPackageInit,
              op |-> "none", m |-> NoManager, url |-> "", err |-> "nil",
              found |-> NoManager, before |-> MacPackageInit]

NextReg ==
    \/ \E m \in Managers : RegisterKeyManager(m)
    \/ \E typeURL \in TypeURLs : GetKeyManager(typeURL)

SpecReg == InitReg /\ [][NextReg]_vars

\* C16: registering a manager for a type URL that maps to another instance
\* fails and leaves the registry as it was; registering the instance it maps to
\* succeeds and leaves the registry as it was; the manager of a type URL is
\* always the first one registered for it.
C16_RegisterOnce ==
    /\ reg.keyManagers = reg.first
    /\ reg.op = "RegisterKeyManager" /\ reg.url \in DOMAIN reg.before =>
         /\ reg.keyManagers = reg.before
         /\ reg.before[reg.url] # reg.m => reg.err # "nil"
         /\ reg.before[reg.url] = reg.m => reg.err = "nil"

C16_Witness ==
    /\ reg.op = "RegisterKeyManager"
    /\ reg.url \in DOMAIN reg.before
    /\ reg.before[reg.url] = [id |-> 2, typeURL |-> reg.url]
    /\ reg.m.id = 1
    /\ reg.err # "nil"

\* C17: GetKeyManager returns the manager registered under the type URL, and
\* NotFound when there is none, and leaves the registry alone; the lookups of
\* the HMAC and of the AES-CMAC type URL succeed, and the HMAC manager found
\* has the type URL looked up.
C17_Lookup ==
    reg.op = "GetKeyManager" =>
        /\ reg.keyManagers = reg.before
        /\ reg.url \in DOMAIN reg.first => reg.err = "nil" /\ reg.found = reg.first[reg.url]
        /\ reg.url \notin DOMAIN reg.first => reg.err = "NotFound" /\ reg.found = NoManager
        /\ reg.url \in {hmacTypeURL, aesCMACTypeURL} => reg.err = "nil"
        /\ reg.url = hmacTypeURL => reg.found.typeURL = hmacTypeURL

C17_Witness ==
    /\ reg.op = "GetKeyManager"
    /\ reg.url = hmacTypeURL
    /\ reg.found = [id |-> 1, typeURL |-> hmacTypeURL]
    /\ Cardinality(DOMAIN reg.keyManagers) > 2

\* ------------------------------------------- XChaCha20-Poly1305 (aead/subtle)
MaxPlainLen == 2

KeySize == 32

NonceSizeX == 24

poly1305TagSize == 16

\* a long plaintext is 2^(intSize-1) - PlainSlack bytes followed by its bytes,
\* which gives the lengths around maxInt - NonceSizeX - poly1305TagSize
PlainSlack == NonceSizeX + poly1305TagSize + MaxPlainLen

PlainLen(d) == [hi |-> d.hi, lo |-> Len(d.bytes) - d.hi * PlainSlack]

Plaintexts ==
    {[hi |-> h, bytes |-> b] :
        h \in 0..1, b \in UNION {[1..n -> {0, 255}] : n \in 0..MaxPlainLen}}

AssociatedData == {<< >>, <<1>>}

XKeys == {StreamBytes(s, 0, n) : s \in Streams, n \in {0, KeySize - 1, KeySize, KeySize + 1}}

\* the AEAD of chacha20poly1305.NewX(key): Seal gives the encrypted bytes
\* followed by a tag over key, nonce, associated data and encrypted bytes
SealBytes(key, nonce, b) == [j \in DOMAIN b |-> (b[j] + key[1] + nonce[1] + j) % 256]

SealTag(key, nonce, hi, c, ad) ==
    <<(key[1] + 3 * nonce[1] + 5 * Enc(ad) + 7 * Enc(c) + 11 * Len(ad) + 13 * Len(c) + hi) % 256>>
    \o Zeros(poly1305TagSize - 1)

Seal(key, nonce, pt, ad) ==
    SealBytes(key, nonce, pt.bytes)
    \o SealTag(key, nonce, pt.hi, SealBytes(key, nonce, pt.bytes), ad)

\* Open(nil, nonce, ciphertext, additionalData) on at least a tag of bytes
Open(key, nonce, hi, sealed, ad) ==
    LET c == Take(sealed, Len(sealed) - poly1305TagSize) IN
    IF Drop(sealed, Len(sealed) - poly1305TagSize) # SealTag(key, nonce, hi, c, ad)
    THEN [err |-> "chacha20poly1305: message authentication failed",
          pt |-> [hi |-> 0, bytes |-> << >>]]
    ELSE [err |-> "nil",
          pt |-> [hi |-> hi,
                  bytes |-> [j \in DOMAIN c |-> (c[j] + 512 - key[1] - nonce[1] - j) % 256]]]

NoInstance == [nil |-> TRUE, Key |-> << >>]

\* mutant: any key that is not empty is accepted
NewXChaCha20Poly1305_NonEmpty(key) ==
    IF Len(key) = 0
    THEN [err |-> "xchacha20poly1305: bad key length", x |-> NoInstance]
    ELSE [err |-> "nil", x |-> [nil |-> FALSE, Key |-> key]]

\* NewXChaCha20Poly1305(key)
NewXChaCha20Poly1305(key) ==
    IF Len(key) # KeySize
    THEN [err |-> "xchacha20poly1305: bad key length", x |-> NoInstance]
    ELSE [err |-> "nil", x |-> [nil |-> FALSE, Key |-> key]]

NoBytes == [hi |-> 0, bytes |-> << >>]

\* mutant: the sealed bytes come first, the nonce last
Encrypt_NonceLast(x, plaintext, associatedData, rnd) ==
    [err |-> "nil", nonce |-> GetRandomBytes(rnd, NonceSizeX),
     out |-> [hi |-> plaintext.hi,
              bytes |-> Seal(x.Key, GetRandomBytes(rnd, NonceSizeX), plaintext, associatedData)
                        \o GetRandomBytes(rnd, NonceSizeX)]]

\* mutant: the length of the plaintext is not checked
Encrypt_AnyLength(x, plaintext, associatedData, rnd) ==
    [err |-> "nil", nonce |-> GetRandomBytes(rnd, NonceSizeX),
     out |-> [hi |-> plaintext.hi,
              bytes |-> GetRandomBytes(rnd, NonceSizeX)
                        \o Seal(x.Key, GetRandomBytes(rnd, NonceSizeX), plaintext, associatedData)]]

\* Encrypt(plaintext, associatedData), the random source being at stream rnd
Encrypt(x, plaintext, associatedData, rnd) ==
    IF ~LenGE([hi |-> maxInt.hi, lo |-> maxInt.lo - NonceSizeX - poly1305TagSize],
              PlainLen(plaintext))
    THEN [err |-> "xchacha20poly1305: plaintext too long", nonce |-> << >>, out |-> NoBytes]
    ELSE IF Len(x.Key) # KeySize
    THEN [err |-> "chacha20poly1305: bad key length", nonce |-> << >>, out |-> NoBytes]
    ELSE LET n == GetRandomBytes(rnd, NonceSizeX) IN
         [err |-> "nil", nonce |-> n,
          out |-> [hi |-> plaintext.hi, bytes |-> n \o Seal(x.Key, n, plaintext, associatedData)]]

\* Decrypt(ciphertext, associatedData)
Decrypt(x, ciphertext, associatedData) ==
    IF ciphertext.hi = 0 /\ Len(ciphertext.bytes) < NonceSizeX + poly1305TagSize
    THEN [err |-> "xchacha20poly1305: ciphertext too short", pt |-> NoBytes]
    ELSE IF Len(x.Key) # KeySize
    THEN [err |-> "chacha20poly1305: bad key length", pt |-> NoBytes]
    ELSE LET n == Take(ciphertext.bytes, NonceSizeX)
             pt == Open(x.Key, n, ciphertext.hi, Drop(ciphertext.bytes, NonceSizeX),
                        associatedData)
         IN IF pt.err # "nil"
            THEN [err |-> "XChaCha20Poly1305.Decrypt: " \o pt.err, pt |-> NoBytes]
            ELSE [err |-> "nil", pt |-> pt.pt]

\* xc: the instance, the call made on it with its arguments and outcome, and
\* for a Decrypt that follows an Encrypt what that Encrypt took and gave
XCState(x, o, key, input, ad, err, out, nonce, enc) ==
    [x |-> x, op |-> o, key |-> key, input |-> input, ad |-> ad, err |-> err,
     out |-> out, nonce |-> nonce, enc |-> enc]

XC_New(key) ==
    /\ xc = Idle
    /\ xc' = XCState(NewXChaCha20Poly1305(key).x, "New", key, NoBytes, << >>,
                     NewXChaCha20Poly1305(key).err, NoBytes, << >>, Idle)
    /\ UNCHANGED <<macVars, km, reg, nw, kt, cc>>

XC_Encrypt(plaintext, associatedData, rnd) ==
    /\ xc # Idle /\ xc.op = "New" /\ ~xc.x.nil
    /\ LET r == Encrypt(xc.x, plaintext, associatedData, rnd) IN
       xc' = XCState(xc.x, "Encrypt", xc.key, plaintext, associatedData, r.err, r.out,
                     r.nonce, Idle)
    /\ UNCHANGED <<macVars, km, reg, nw, kt, cc>>

\* the ciphertexts handed to Decrypt: the output of the Encrypt before, whole,
\* with its last byte changed or cut below a nonce and a tag, and short ones
DecryptInputs ==
    {NoBytes, [hi |-> 0, bytes |-> Zeros(NonceSizeX + poly1305TagSize - 1)],
     [hi |-> 0, bytes |-> Zeros(NonceSizeX + poly1305TagSize)]}
    \cup (IF xc # Idle /\ xc.op = "Encrypt" /\ xc.err = "nil"
          THEN {xc.out, [xc.out EXCEPT !.bytes = FlipLast(@)],
                [hi |-> 0, bytes |-> Take(xc.out.bytes, NonceSizeX + poly1305TagSize - 1)]}
          ELSE {})

XC_Decrypt(ciphertext, associatedData) ==
    /\ xc # Idle /\ xc.op \in {"New", "Encrypt"} /\ ~xc.x.nil
    /\ LET r == Decrypt(xc.x, ciphertext, associatedData) IN
       xc' = XCState(xc.x, "Decrypt", xc.key, ciphertext, associatedData, r.err, r.pt, << >>,
                     IF xc.op = "Encrypt"
                     THEN [pt |-> xc.input, ad |-> xc.ad, out |-> xc.out, err |-> xc.err]
                     ELSE Idle)
    /\ UNCHANGED <<macVars, km, reg, nw, kt, cc>>

\* the caller is done with the outcome; the instance stays
XC_Return ==
    /\ xc # Idle /\ xc.op \in {"Encrypt", "Decrypt"}
    /\ xc' = XCState(xc.x, "New", xc.key, NoBytes, << >>, "nil", NoBytes, << >>, Idle)
    /\ UNCHANGED <<macVars, km, reg, nw, kt, cc>>

InitXC == MacAtRest /\ OthersIdle

NextXC ==
    \/ \E key \in XKeys : XC_New(key)
    \/ \E pt \in Plaintexts, ad \in AssociatedData, rnd \in Streams : XC_Encrypt(pt, ad, rnd)
    \/ \E ct \in DecryptInputs, ad \in AssociatedData : XC_Decrypt(ct, ad)
    \/ XC_Return

SpecXC == InitXC /\ [][NextXC]_vars

\* C18: Decrypt of what Encrypt returned, with the same associated data,
\* returns the plaintext without error, for every 32-byte key and every
\* plaintext within the length bound; Encrypt's output is the 24-byte nonce
\* followed by the sealed bytes, |pt| + 24 + 16 bytes in all.
C18_RoundTrip ==
    /\ xc # Idle /\ xc.op = "Encrypt" =>
         /\ LenGE([hi |-> maxInt.hi, lo |-> maxInt.lo - 40], PlainLen(xc.input))
              => xc.err = "nil"
         /\ xc.err = "nil" =>
              /\ Len(xc.key) = 32
              /\ Len(xc.nonce) = 24
              /\ Take(xc.out.bytes, 24) = xc.nonce
              /\ xc.out.hi = xc.input.hi
              /\ Len(xc.out.bytes) = Len(xc.input.bytes) + 24 + 16
    /\ xc # Idle /\ xc.op = "Decrypt" /\ xc.enc # Idle =>
         (xc.enc.err = "nil" /\ xc.input = xc.enc.out /\ xc.ad = xc.enc.ad
             => xc.err = "nil" /\ xc.out = xc.enc.pt)

C18_Witness ==
    /\ xc # Idle /\ xc.op = "Decrypt" /\ xc.enc # Idle
    /\ xc.input = xc.enc.out /\ xc.ad = xc.enc.ad /\ xc.ad # << >>
    /\ xc.enc.pt.hi = 1 /\ xc.enc.pt.bytes = <<255>>
    /\ xc.out = xc.enc.pt

\* C19: NewXChaCha20Poly1305 returns an instance exactly for the keys of 32
\* bytes; every other key length, the empty key included, gets the
\* bad-key-length error and no instance.
C19_KeyLength ==
    xc # Idle =>
        /\ ~xc.x.nil <=> Len(xc.key) = 32
        /\ ~xc.x.nil => xc.x.Key = xc.key
        /\ xc.op = "New" /\ Len(xc.key) # 32 =>
             xc.err = "xchacha20poly1305: bad key length" /\ xc.x = NoInstance

C19_Witness == xc # Idle /\ xc.op = "New" /\ Len(xc.key) = 33 /\ xc.x = NoInstance

\* ------------------------------------- construction of the wrapped MAC (4.3)
MaxAnnotations == 2

DoNothingLogger == [kind |-> "DoNothingLogger", primitive |-> "", apiFunction |-> "",
                    keysetInfo |-> << >>]

NilLogger == [kind |-> "nil", primitive |-> "", apiFunction |-> "", keysetInfo |-> << >>]

\* monitoringutil.KeysetInfoFromPrimitiveSet(ps): the annotations, the primary's
\* key id and the key ids of the entries
KeysetInfoFromPrimitiveSet(ps) ==
    <<ps.annotations, ps.entries[ps.primary].keyId,
      [j \in DOMAIN ps.entries |-> ps.entries[j].keyId]>>

\* client.NewLogger(&monitoring.Context{...}); failing names what fails
NewLogger(context, failing) ==
    IF context.apiFunction \in failing
    THEN [err |-> "monitoring: NewLogger failed", logger |-> NilLogger]
    ELSE [err |-> "nil",
          logger |-> [kind |-> "client", primitive |-> context.primitive,
                      apiFunction |-> context.apiFunction, keysetInfo |-> context.keysetInfo]]

LoggersResult(err, computeLogger, verifyLogger) ==
    [err |-> err, computeLogger |-> computeLogger, verifyLogger |-> verifyLogger]

\* mutant: the error of the second NewLogger is not looked at
createLoggers_VerifyUnchecked(ps, failing) ==
    IF ps.annotations = 0 THEN LoggersResult("nil", DoNothingLogger, DoNothingLogger)
    ELSE IF "keysetInfo" \in failing \/ "compute" \in failing
    THEN LoggersResult("failed", NilLogger, NilLogger)
    ELSE LoggersResult("nil",
            NewLogger([primitive |-> "mac", apiFunction |-> "compute",
                       keysetInfo |-> KeysetInfoFromPrimitiveSet(ps)], failing).logger,
            NewLogger([primitive |-> "mac", apiFunction |-> "verify",
                       keysetInfo |-> KeysetInfoFromPrimitiveSet(ps)], failing).logger)

\* createLoggers(ps)
createLoggers(ps, failing) ==
    IF ps.annotations = 0 THEN LoggersResult("nil", DoNothingLogger, DoNothingLogger)
    ELSE IF "keysetInfo" \in failing
    THEN LoggersResult("monitoringutil: keyset info failed", NilLogger, NilLogger)
    ELSE LET keysetInfo == KeysetInfoFromPrimitiveSet(ps)
             computeLogger == NewLogger([primitive |-> "mac", apiFunction |-> "compute",
                                         keysetInfo |-> keysetInfo], failing)
             verifyLogger == NewLogger([primitive |-> "mac", apiFunction |-> "verify",
                                        keysetInfo |-> keysetInfo], failing)
         IN IF computeLogger.err # "nil" THEN LoggersResult(computeLogger.err, NilLogger, NilLogger)
            ELSE IF verifyLogger.err # "nil"
            THEN LoggersResult(verifyLogger.err, NilLogger, NilLogger)
            ELSE LoggersResult("nil", computeLogger.logger, verifyLogger.logger)

\* newWrappedMAC(ps): nw keeps the arguments, the error and the wrappedMAC
newWrappedMAC(ps, failing) ==
    /\ nw = Idle
    /\ nw' = [op |-> "newWrappedMAC", ps |-> ps, failing |-> failing,
              err |-> createLoggers(ps, failing).err,
              nil |-> createLoggers(ps, failing).err # "nil",
              computeLogger |-> createLoggers(ps, failing).computeLogger,
              verifyLogger |-> createLoggers(ps, failing).verifyLogger]
    /\ UNCHANGED <<macVars, km, reg, xc, kt, cc>>

\* the caller is done with the outcome
NW_Return ==
    /\ nw # Idle
    /\ nw' = Idle
    /\ UNCHANGED <<macVars, km, reg, xc, kt, cc>>

\* primitive sets with their annotations (of which only the number is kept)
AnnotatedSets ==
    {[entries |-> e, primary |-> p, annotations |-> a] :
        e \in {s \in PrimitiveSets : Len(s) <= 2}, p \in 1..2, a \in 0..MaxAnnotations}

InitNW == MacAtRest /\ OthersIdle

NextNW ==
    \/ \E ps \in {s \in AnnotatedSets : s.primary \in DOMAIN s.entries},
          failing \in SUBSET {"keysetInfo", "compute", "verify"} : newWrappedMAC(ps, failing)
    \/ NW_Return

SpecNW == InitNW /\ [][NextNW]_vars

\* C20: without annotations both loggers of the wrapped MAC are no-op loggers;
\* with annotations they are the client's loggers for ("mac", "compute") and
\* ("mac", "verify") with the same keyset info; when the keyset info or one of
\* the loggers cannot be made, construction fails and returns no wrapped MAC.
C20_Loggers ==
    nw # Idle =>
        /\ nw.ps.annotations = 0 =>
             /\ nw.err = "nil" /\ ~nw.nil
             /\ nw.computeLogger = DoNothingLogger
             /\ nw.verifyLogger = DoNothingLogger
        /\ nw.ps.annotations > 0 /\ nw.failing = {} =>
             /\ nw.err = "nil" /\ ~nw.nil
             /\ nw.computeLogger.kind = "client" /\ nw.verifyLogger.kind = "client"
             /\ nw.computeLogger.primitive = "mac" /\ nw.computeLogger.apiFunction = "compute"
             /\ nw.verifyLogger.primitive = "mac" /\ nw.verifyLogger.apiFunction = "verify"
             /\ nw.computeLogger.keysetInfo = nw.verifyLogger.keysetInfo
             /\ nw.computeLogger.keysetInfo[1] = nw.ps.annotations
        /\ nw.ps.annotations > 0 /\ nw.failing # {} =>
             nw.err # "nil" /\ nw.nil

C20_Witness ==
    /\ nw # Idle
    /\ nw.ps.annotations = MaxAnnotations
    /\ nw.failing = {"verify"}
    /\ nw.nil

\* ------------------------------------------- hybrid key templates (part_001)
hpkePrivateKeyTypeURL == "type.googleapis.com/google.crypto.tink.HpkePrivateKey"

\* the numbers of the enum values of hpkepb and commonpb on the wire
EnumNumber(e) ==
    CASE e \in {"DHKEM_X25519_HKDF_SHA256", "HKDF_SHA256", "AES_128_GCM", "UNCOMPRESSED"} -> 1
      [] e \in {"DHKEM_P256_HKDF_SHA256", "HKDF_SHA384", "AES_256_GCM", "NIST_P256"} -> 2
      [] e \in {"DHKEM_P384_HKDF_SHA384", "HKDF_SHA512", "CHACHA20_POLY1305", "SHA256"} -> 3
      [] e \in {"DHKEM_P521_HKDF_SHA512"} -> 4
      [] OTHER -> 0

\* proto.Marshal of a format whose params are the enum values ps, in field order
MarshalParamsFormat(ps) ==
    <<WireField(1, 0, << >>,
                SelectSeq([j \in DOMAIN ps |-> [f |-> j, v |-> EnumNumber(ps[j])]],
                          LAMBDA x : x.v # 0))>>

\* mutant: the template always asks for the Tink prefix
createHPKEKeyTemplate_Tink(kem, kdf, aead, outputPrefixType) ==
    [typeUrl |-> hpkePrivateKeyTypeURL, value |-> MarshalParamsFormat(<<kem, kdf, aead>>),
     outputPrefixType |-> "TINK"]

\* createHPKEKeyTemplate(kem, kdf, aead, outputPrefixType)
createHPKEKeyTemplate(kem, kdf, aead, outputPrefixType) ==
    [typeUrl |-> hpkePrivateKeyTypeURL, value |-> MarshalParamsFormat(<<kem, kdf, aead>>),
     outputPrefixType |-> outputPrefixType]

\* createECIESAEADHKDFKeyTemplate(c, ht, ptfmt, dekT, salt); of the format the
\* enum values are kept, the DEM template and the salt are left out
createECIESAEADHKDFKeyTemplate(c, ht, ptfmt) ==
    [typeUrl |-> "type.googleapis.com/google.crypto.tink.EciesAeadHkdfPrivateKey",
     value |-> MarshalParamsFormat(<<c, ht, ptfmt>>), outputPrefixType |-> "TINK"]

\* the exported template functions, named by the parts of their names:
\* <KEM>_<KDF>_<AEAD>[_Raw]_Key_Template and ECIESHKDF<DEM>KeyTemplate
TemplateFunctions ==
    [kem : {"DHKEM_X25519_HKDF_SHA256"}, kdf : {"HKDF_SHA256"},
     aead : {"AES_128_GCM", "AES_256_GCM", "CHACHA20_POLY1305"}, raw : BOOLEAN]
    \cup [kem : {"DHKEM_P256_HKDF_SHA256"}, kdf : {"HKDF_SHA256"},
          aead : {"AES_128_GCM", "AES_256_GCM"}, raw : BOOLEAN]
    \cup [kem : {"ECIES"}, kdf : {"HKDF"}, aead : {"AES128GCM", "AES128CTRHMACSHA256"},
          raw : {FALSE}]

\* the body of the template function fn
KeyTemplateOf(fn) ==
    IF fn.kem = "ECIES"
    THEN createECIESAEADHKDFKeyTemplate("NIST_P256", "SHA256", "UNCOMPRESSED")
    ELSE createHPKEKeyTemplate(fn.kem, fn.kdf, fn.aead, IF fn.raw THEN "RAW" ELSE "TINK")

\* a template function is called
KeyTemplate(fn) ==
    /\ kt' = [exported |-> TRUE, fn |-> fn, template |-> KeyTemplateOf(fn)]
    /\ UNCHANGED <<macVars, km, reg, xc, nw, cc>>

\* createHPKEKeyTemplate on any enum values and prefix type
HPKEKeyTemplate(kem, kdf, aead, outputPrefixType) ==
    /\ kt' = [exported |-> FALSE,
              fn |-> [kem |-> kem, kdf |-> kdf, aead |-> aead, raw |-> outputPrefixType = "RAW"],
              template |-> createHPKEKeyTemplate(kem, kdf, aead, outputPrefixType)]
    /\ UNCHANGED <<macVars, km, reg, xc, nw, cc>>

InitKT == MacAtRest /\ OthersIdle

NextKT ==
    \/ \E fn \in TemplateFunctions : KeyTemplate(fn)
    \/ \E kem \in {"KEM_UNKNOWN", "DHKEM_X25519_HKDF_SHA256", "DHKEM_P256_HKDF_SHA256",
                   "DHKEM_P384_HKDF_SHA384", "DHKEM_P521_HKDF_SHA512"},
          kdf \in {"KDF_UNKNOWN", "HKDF_SHA256", "HKDF_SHA384", "HKDF_SHA512"},
          aead \in {"AEAD_UNKNOWN", "AES_128_GCM", "AES_256_GCM", "CHACHA20_POLY1305"},
          outputPrefixType \in PrefixTypes :
              HPKEKeyTemplate(kem, kdf, aead, outputPrefixType)

SpecKT == InitKT /\ [][NextKT]_vars

\* the enum value of field f of the params of a serialized format, as a number
ParamOf(value, f) ==
    IF HasField(value, 1) /\ HasField(FieldOf(value, 1).m, f)
    THEN FieldOf(FieldOf(value, 1).m, f).v ELSE 0

\* C21: an HPKE template function returns the HPKE private-key type URL, the
\* serialized HpkeKeyFormat with the KEM, KDF and AEAD of its name, and the
\* prefix type RAW if its name says Raw and TINK otherwise; the ECIES
\* template functions return the prefix type TINK.
C21_Templates ==
    kt # Idle /\ kt.exported =>
        /\ kt.fn.kem = "ECIES" => kt.template.outputPrefixType = "TINK"
        /\ kt.fn.kem # "ECIES" =>
             /\ kt.template.typeUrl = "type.googleapis.com/google.crypto.tink.HpkePrivateKey"
             /\ Len(kt.template.value) = 1
             /\ ParamOf(kt.template.value, 1) =
                    (IF kt.fn.kem = "DHKEM_X25519_HKDF_SHA256" THEN 1 ELSE 2)
             /\ ParamOf(kt.template.value, 2) = 1
             /\ ParamOf(kt.template.value, 3) =
                    (CASE kt.fn.aead = "AES_128_GCM" -> 1
                       [] kt.fn.aead = "AES_256_GCM" -> 2
                       [] kt.fn.aead = "CHACHA20_POLY1305" -> 3)
             /\ kt.template.outputPrefixType = (IF kt.fn.raw THEN "RAW" ELSE "TINK")

C21_Witness ==
    /\ kt # Idle
    /\ kt.exported
    /\ kt.fn = [kem |-> "DHKEM_P256_HKDF_SHA256", kdf |-> "HKDF_SHA256",
                aead |-> "AES_256_GCM", raw |-> TRUE]
    /\ kt.template.outputPrefixType = "RAW"

\* ------------------------------- concurrent calls on one wrapped MAC (5)
\* the locals of the running call
Context ==
    [pc |-> pc, op |-> op, callMac |-> callMac, callData |-> callData, data |-> data,
     cands |-> cands, i |-> i, calls |-> calls, logs |-> logs, lookups |-> lookups,
     result |-> result]

\* the locals of a goroutine that is not in a call
IdleContext ==
    [pc |-> "idle", op |-> "none", callMac |-> << >>, callData |-> NoData, data |-> NoData,
     cands |-> << >>, i |-> 0, calls |-> << >>, logs |-> << >>, lookups |-> << >>,
     result |-> Pending]

\* mutant: data is a buffer of the wrapped MAC, which the calls share
Switch_SharedData ==
    LET in == IF cc = Idle THEN IdleContext ELSE cc IN
    /\ cc' = Context
    /\ pc' = in.pc /\ op' = in.op /\ callMac' = in.callMac /\ callData' = in.callData
    /\ cands' = in.cands /\ i' = in.i /\ calls' = in.calls
    /\ logs' = in.logs /\ lookups' = in.lookups /\ result' = in.result
    /\ UNCHANGED <<data, entries, primary, last, km, reg, xc, nw, kt>>

\* the scheduler runs the other goroutine: every variable of a call is a
\* parameter or a local of ComputeMAC or VerifyMAC and goes with its goroutine
Switch ==
    LET in == IF cc = Idle THEN IdleContext ELSE cc IN
    /\ cc' = Context
    /\ pc' = in.pc /\ op' = in.op /\ callMac' = in.callMac /\ callData' = in.callData
    /\ data' = in.data /\ cands' = in.cands /\ i' = in.i /\ calls' = in.calls
    /\ logs' = in.logs /\ lookups' = in.lookups /\ result' = in.result
    /\ UNCHANGED <<entries, primary, last, km, reg, xc, nw, kt>>

\* a wrapped MAC over a keyset whose key ids are distinct
InitCC ==
    /\ Init
    /\ \A j, k \in DOMAIN entries : entries[j].keyId = entries[k].keyId => j = k

\* two goroutines call ComputeMAC and VerifyMAC with data shorter than maxInt
\* on the one wrapped MAC, their steps interleaved in any order
NextCC ==
    \/ /\ \/ \E d \in {x \in DataInputs : x.hi = 0}, primFails \in BOOLEAN :
                ComputeMAC(d, primFails)
          \/ \E d \in {x \in DataInputs : x.hi = 0} : \E mac \in MacInputs(d) :
                VerifyMAC_Begin(mac, d, FALSE)
          \/ VerifyMAC_TryPrefixEntry
          \/ VerifyMAC_LookupRaw
          \/ VerifyMAC_TryRawEntry
          \/ VerifyMAC_NothingWorked
          \/ Return
       /\ UNCHANGED others
    \/ Switch

SpecCC == InitCC /\ [][NextCC]_vars

\* VerifyMAC(mac, d) run from its first statement to its return with no other
\* call in between: its result and the invocations of the primitives it makes
AloneVerifyMAC(mac, d) ==
    LET bucket == EntriesForPrefix(Take(mac, NonRawPrefixSize))
        macNoPrefix == Drop(mac, NonRawPrefixSize)
        RECURSIVE Raw(_, _, _)
        Raw(dt, j, cl) ==
            IF j > Len(RawEntries)
            THEN [result |-> Failed("InvalidMac"), calls |-> cl]
            ELSE LET e == entries[RawEntries[j]]
                     ok == PrimitiveVerifyMAC(e.key, mac, dt)
                     cl2 == Append(cl, Invocation(RawEntries[j], "VerifyMAC", mac, dt, ok))
                 IN IF ok THEN [result |-> [err |-> "nil", mac |-> << >>], calls |-> cl2]
                    ELSE Raw(dt, j + 1, cl2)
        RECURSIVE Bucket(_, _, _)
        Bucket(dt, j, cl) ==
            IF j > Len(bucket) THEN Raw(dt, 1, cl)
            ELSE LET e == entries[bucket[j]]
                     dd == EntryData(e, dt)
                     ok == PrimitiveVerifyMAC(e.key, macNoPrefix, dd)
                     cl2 == Append(cl, Invocation(bucket[j], "VerifyMAC", macNoPrefix, dd, ok))
                 IN IF e.prefixType = "LEGACY" /\ DataTooLong(dt)
                    THEN [result |-> Failed("DataTooLong"), calls |-> cl]
                    ELSE IF ok THEN [result |-> [err |-> "nil", mac |-> << >>], calls |-> cl2]
                    ELSE Bucket(dd, j + 1, cl2)
    IN IF ShortMAC(mac) THEN [result |-> Failed("InvalidMac"), calls |-> << >>]
       ELSE Bucket(d, 1, << >>)

IsPrefixOf(a, b) == Len(a) <= Len(b) /\ a = SubSeq(b, 1, Len(a))

\* the call with locals c has done, so far, what it does when it runs alone
AsAlone(c) ==
    LET p == entries[primary]
        alone == AloneVerifyMAC(c.callMac, c.callData)
    IN /\ c.op = "ComputeMAC" =>
            /\ \A n \in DOMAIN c.calls :
                  /\ c.calls[n].entry = primary
                  /\ c.calls[n].data = EntryData(p, c.callData)
            /\ c.result.err = "nil" => c.result.mac = MACOf(p, c.callData)
       /\ c.op = "VerifyMAC" =>
            /\ IsPrefixOf(c.calls, alone.calls)
            /\ c.pc = "done" => c.calls = alone.calls /\ c.result = alone.result

\* C22: when two calls of ComputeMAC and VerifyMAC on one wrapped MAC
\* interleave in any order, each call invokes the primitives with the
\* arguments, and returns the result, of the same call running alone
C22_NoInterference ==
    /\ AsAlone(Context)
    /\ cc # Idle => AsAlone(cc)

\* a VerifyMAC has returned while another VerifyMAC on different data, which
\* has built the LEGACY buffer for its own data, is suspended in its loop
C22_Witness ==
    /\ cc # Idle
    /\ cc.op = "VerifyMAC"
    /\ cc.pc \in {"prefix", "raw"}
    /\ cc.data # cc.callData
    /\ op = "VerifyMAC"
    /\ pc = "done"
    /\ Len(calls) > 0
    /\ callData # cc.callData


\* C23: on success ComputeMAC logs the primary's key id and VerifyMAC the key
\* id of the entry that accepted, each with the length of the data defined
\* for that entry: |data| + 1 for a LEGACY entry and |data| otherwise
C23_Logged ==
    /\ (pc = "done" /\ op = "ComputeMAC" /\ result.err = "nil") =>
            logs = <<Log(entries[primary].keyId,
                         DataLen(EntryData(entries[primary], callData)))>>
    /\ (pc = "done" /\ op = "VerifyMAC" /\ result.err = "nil") =>
            LET e == entries[calls[Len(calls)].entry]
            IN logs = <<Log(e.keyId, DataLen(EntryData(e, callData)))>>

C25_Sound ==
    (VerifyDone /\ Len(callMac) > NonRawPrefixSize) =>
        /\ result.err = "nil" =>
              \E n \in DOMAIN calls :
                 /\ calls[n].ok
                 /\ \/ /\ ~IsRaw(calls[n].entry)
                       /\ Prefix(entries[calls[n].entry]) = Take(callMac, NonRawPrefixSize)
                       /\ calls[n].mac = Drop(callMac, NonRawPrefixSize)
                    \/ IsRaw(calls[n].entry) /\ calls[n].mac = callMac
        /\ (Len(calls) = Len(Candidates) /\ \A n \in DOMAIN calls : ~calls[n].ok) =>
              /\ result = Failed("InvalidMac")
              /\ logs = <<LogFailure>>

\* InvalidMac for a mac longer than five bytes on a set with no raw entry and
\* no entry of the mac's prefix
C25_Witness ==
    /\ VerifyDone
    /\ Len(callMac) > NonRawPrefixSize
    /\ Candidates = << >>
    /\ result.err = "InvalidMac"

DeriveCall == km.op \in {"DeriveKey", "DeriveKeyNext"}

\* C26: a successful DeriveKey takes exactly keySize bytes from the reader,
\* the ones at its position, so that the next call on the reader gets the
\* chunk that follows; for an empty, unparseable, parameter-invalid or
\* version-invalid format DeriveKey leaves the reader where it was
C26_Consumes ==
    DeriveCall =>
        /\ km.res.err = "nil" =>
             \E f \in FormatsOf(km.input) :
                 /\ km.res.r = [km.rd EXCEPT !.pos = @ + f.keySize]
                 /\ km.res.key.keyValue = StreamBytes(km.rd.stream, km.rd.pos, f.keySize)
        /\ (km.input \in {<< >>, Garbage}
              \/ \E f \in FormatsOf(km.input) : ParamInvalid(f) \/ f.version > hmacKeyVersion)
             => km.res.err # "nil" /\ km.res.r = km.rd
        /\ (km.op = "DeriveKeyNext" /\ km.res.err = "nil") =>
             /\ km.rd.pos = Len(km.prev.res.key.keyValue)
             /\ km.prev.res.key.keyValue \o km.res.key.keyValue
                  = StreamBytes(km.rd.stream, 0, km.res.r.pos)

\* two successful calls in a row on one stream, the second with a larger key
C26_Witness ==
    /\ km.op = "DeriveKeyNext"
    /\ km.res.err = "nil"
    /\ km.rd.pos = minKeySizeInBytes
    /\ km.res.r.pos = 2 * minKeySizeInBytes + 1

\* C27: a key NewKey or DeriveKey returns passes validateKey: its version is
\* 0, its length the keySize, its params the params of a format that
\* validateKeyFormat accepts; Primitive of its serialization, and of the
\* value of the key data NewKeyData returns, succeeds
C27_Agree ==
    /\ (km.op \in {"NewKey", "DeriveKey", "DeriveKeyNext"} /\ km.res.err = "nil") =>
          /\ validateKey(km.res.key) = "nil"
          /\ \E f \in FormatsOf(km.input) :
                /\ validateKeyFormat(f) = "nil"
                /\ km.res.key.version = hmacKeyVersion
                /\ Len(km.res.key.keyValue) = f.keySize
                /\ km.res.key.params = f.params
    /\ km.op = "PrimitiveOfKey" =>
          /\ km.res.err = "nil"
          /\ ~km.res.prim.nil
          /\ km.prev.op # "NewKeyData" =>
                /\ km.res.prim.key = km.prev.res.key.keyValue
                /\ km.res.prim.tagSize = km.prev.res.key.params.tagSize

\* Primitive has been applied to the value of a key data from NewKeyData
C27_Witness ==
    /\ km.op = "PrimitiveOfKey"
    /\ km.prev.op = "NewKeyData"
    /\ km.res.err = "nil"
    /\ Len(km.res.prim.key) = minKeySizeInBytes

\* the largest plaintext length Encrypt takes: maxInt - 24 - 16
MaxPlaintextLen == [hi |-> maxInt.hi, lo |-> maxInt.lo - 40]

\* C28: Decrypt answers ciphertext-too-short, and nothing else, exactly for
\* the ciphertexts of fewer than 24 + 16 = 40 bytes; Encrypt answers
\* plaintext-too-long exactly for the plaintexts longer than maxInt - 40, so
\* that the output length |pt| + 40 is at most maxInt; the output of a
\* successful Encrypt has at least 40 bytes and passes Decrypt's length check
C28_Lengths ==
    /\ (xc # Idle /\ xc.op = "Decrypt") =>
          /\ (xc.input.hi = 0 /\ Len(xc.input.bytes) < 40) <=>
                xc.err = "xchacha20poly1305: ciphertext too short"
          /\ xc.err = "xchacha20poly1305: ciphertext too short" => xc.out = NoBytes
          /\ (xc.enc # Idle /\ xc.enc.err = "nil" /\ xc.input = xc.enc.out) =>
                xc.err # "xchacha20poly1305: ciphertext too short"
    /\ (xc # Idle /\ xc.op = "Encrypt") =>
          /\ ~LenGE(MaxPlaintextLen, PlainLen(xc.input)) <=>
                xc.err = "xchacha20poly1305: plaintext too long"
          /\ xc.err = "xchacha20poly1305: plaintext too long" => xc.out = NoBytes
          /\ xc.err = "nil" =>
                /\ LenGE(maxInt, [hi |-> xc.input.hi, lo |-> PlainLen(xc.input).lo + 40])
                /\ xc.out.hi = 1 \/ Len(xc.out.bytes) >= 40

\* Encrypt has turned down a plaintext of maxInt - 39 bytes
C28_Witness ==
    /\ xc # Idle
    /\ xc.op = "Encrypt"
    /\ PlainLen(xc.input) = [hi |-> maxInt.hi, lo |-> maxInt.lo - 39]
    /\ xc.err = "xchacha20poly1305: plaintext too long"
====
